---- MODULE Spec2Model ----
(***************************************************************************)
(* Model of the thread pool of src/src/lib.rs: ThreadPool::new,            *)
(* ThreadPool::execute, Drop for ThreadPool and the worker loop of         *)
(* Worker::new, over std::sync::mpsc::channel and Arc<Mutex<Receiver>>.    *)
(*                                                                         *)
(* One action is one step of one thread.  The constructing/owning thread   *)
(* runs new and drop, caller threads run execute, and every worker thread  *)
(* runs the loop of lib.rs:127-149, split at the points where another      *)
(* thread can observe it: lock, recv, guard release, match, job end.       *)
(***************************************************************************)
EXTENDS Integers, Sequences, FiniteSets, TLC

\* Bounds of the model.
MaxSize == 2
MaxJobs == 3

\* The caller threads that may submit (execute takes &self).
Callers == {"c1", "c2"}

VARIABLES
    size,        \* the argument of ThreadPool::new
    newPc,       \* position of ThreadPool::new
    id,          \* loop variable of `for id in 0..size` (lib.rs:45)
    sender,      \* the channel's only Sender: "NoChannel", "Some", "None"
    rxRefs,      \* strong count of Arc<Mutex<Receiver<Job>>>
    queue,       \* the channel's buffered messages, oldest first
    workers,     \* ThreadPool.workers: Vec<Worker>, records [id, thread]
    wpc,         \* position of each spawned worker thread, by worker id
    wmsg,        \* `message` of each worker thread (lib.rs:132)
    lockHolder,  \* the worker holding the Mutex guard, or NoWorker
    poisoned,    \* the Mutex's poison flag
    jobs,        \* every closure handed to execute, in call order
    dropPc,      \* position of Drop::drop
    dropIdx      \* position of `for worker in &mut self.workers` (1-based)

vars == <<size, newPc, id, sender, rxRefs, queue, workers, wpc, wmsg,
          lockHolder, poisoned, jobs, dropPc, dropIdx>>

NoWorker == -1
NoMessage == 0       \* `message` not yet bound
Disconnected == -1   \* recv() returned Err(RecvError)

Spawned == DOMAIN wpc

----------------------------------------------------------------------------
\* Sequence helpers.

RemoveAt(q, i) == [k \in 1..(Len(q) - 1) |-> IF k < i THEN q[k] ELSE q[k + 1]]

SeqToSet(q) == {q[k] : k \in DOMAIN q}

----------------------------------------------------------------------------
\* ThreadPool::new (lib.rs:21-54)

SizeOkMutant(n) == n >= 0

\* assert!(size > 0)
SizeOk(n) == n > 0

\* lib.rs:24
NewAssert ==
    /\ newPc = "assert"
    /\ newPc' = IF SizeOk(size) THEN "channel" ELSE "InvalidConfiguration"
    /\ UNCHANGED <<size, id, sender, rxRefs, queue, workers, wpc, wmsg,
                   lockHolder, poisoned, jobs, dropPc, dropIdx>>

\* lib.rs:30-40: mpsc::channel(), Arc::new(Mutex::new(receiver)), empty Vec
NewChannel ==
    /\ newPc = "channel"
    /\ sender' = "Some"
    /\ rxRefs' = 1
    /\ queue' = <<>>
    /\ workers' = <<>>
    /\ id' = 0
    /\ newPc' = "spawn"
    /\ UNCHANGED <<size, wpc, wmsg, lockHolder, poisoned, jobs, dropPc,
                   dropIdx>>

SpawnMoreMutant(n, sz) == n <= sz

\* the range 0..size of the loop at lib.rs:45
SpawnMore(n, sz) == n < sz

\* the id given to Worker::new at lib.rs:46
WorkerId(n) == n

\* lib.rs:45-47 with Worker::new (lib.rs:124-157): one iteration spawns one
\* thread, which owns a clone of the Arc and starts at the top of its loop.
NewSpawn ==
    /\ newPc = "spawn"
    /\ SpawnMore(id, size)
    /\ LET w == WorkerId(id) IN
        /\ workers' = Append(workers, [id |-> w, thread |-> "Some"])
        /\ wpc' = [x \in Spawned \cup {w} |-> IF x = w THEN "lock" ELSE wpc[x]]
        /\ wmsg' = [x \in Spawned \cup {w} |->
                        IF x = w THEN NoMessage ELSE wmsg[x]]
    /\ rxRefs' = rxRefs + 1
    /\ id' = id + 1
    /\ UNCHANGED <<size, newPc, sender, queue, lockHolder, poisoned, jobs,
                   dropPc, dropIdx>>

\* lib.rs:50-54: the struct is built and the local Arc `receiver` is dropped
NewReturn ==
    /\ newPc = "spawn"
    /\ ~SpawnMore(id, size)
    /\ rxRefs' = rxRefs - 1
    /\ newPc' = "done"
    /\ UNCHANGED <<size, id, sender, queue, workers, wpc, wmsg, lockHolder,
                   poisoned, jobs, dropPc, dropIdx>>

----------------------------------------------------------------------------
\* ThreadPool::execute (lib.rs:71-90)

ExecuteOutcomeMutant(s, refs) == IF refs = 0 THEN "SendError" ELSE "Ok"

\* self.sender.as_ref().unwrap() panics on None (lib.rs:83);
\* sender.send(job).unwrap() panics when the Receiver is gone (lib.rs:89)
ExecuteOutcome(s, refs) ==
    IF s # "Some" THEN "PoolClosed"
    ELSE IF refs = 0 THEN "SendError"
    ELSE "Ok"

EnqueueMutant(q, j) == <<j>> \o q

\* Sender::send appends to the channel's buffer
Enqueue(q, j) == Append(q, j)

NewJob(c, outcome) ==
    [producer |-> c,
     outcome |-> outcome,
     status |-> IF outcome = "Ok" THEN "queued" ELSE "rejected",
     claimedBy |-> {},
     starts |-> 0]

\* A call of execute by caller c.  A call after drop has taken the sender
\* (lib.rs:106) meets None at lib.rs:83.
Execute(c) ==
    /\ newPc = "done"
    /\ dropPc \in {"none", "loop", "join"}
    /\ Len(jobs) < MaxJobs
    /\ LET j == Len(jobs) + 1
           outcome == ExecuteOutcome(sender, rxRefs)
       IN /\ jobs' = Append(jobs, NewJob(c, outcome))
          /\ queue' = IF outcome = "Ok" THEN Enqueue(queue, j) ELSE queue
    /\ UNCHANGED <<size, newPc, id, sender, rxRefs, workers, wpc, wmsg,
                   lockHolder, poisoned, dropPc, dropIdx>>

----------------------------------------------------------------------------
\* The worker thread (lib.rs:127-149)

\* Dropping the last Arc drops the Receiver, which discards what is buffered.
QueueAfterRefDrop(refs, q) == IF refs = 0 THEN <<>> ELSE q

JobsAfterRefDrop(refs, q, js) ==
    IF refs = 0
    THEN [j \in DOMAIN js |->
            IF j \in SeqToSet(q) THEN [js[j] EXCEPT !.status = "discarded"]
            ELSE js[j]]
    ELSE js

\* receiver.lock().unwrap() (lib.rs:132): blocks while another worker holds
\* the guard; panics when the mutex is poisoned.
Lock(w) ==
    /\ wpc[w] = "lock"
    /\ lockHolder = NoWorker
    /\ IF poisoned
       THEN /\ wpc' = [wpc EXCEPT ![w] = "panicked"]
            /\ rxRefs' = rxRefs - 1
            /\ queue' = QueueAfterRefDrop(rxRefs', queue)
            /\ jobs' = JobsAfterRefDrop(rxRefs', queue, jobs)
            /\ UNCHANGED lockHolder
       ELSE /\ wpc' = [wpc EXCEPT ![w] = "recv"]
            /\ lockHolder' = w
            /\ UNCHANGED <<rxRefs, queue, jobs>>
    /\ UNCHANGED <<size, newPc, id, sender, workers, wmsg, poisoned, dropPc,
                   dropIdx>>

RecvPickMutant(q) == Len(q)

\* Receiver::recv takes the oldest buffered message
RecvPick(q) == 1

RecvRestMutant(q) == q

\* ... and removes it from the buffer
RecvRest(q) == RemoveAt(q, RecvPick(q))

RecvDisconnectedMutant(q, s) == s # "Some"

RecvDisconnectedNever(q, s) == FALSE

\* recv returns Err only when the buffer is empty and every Sender is gone
RecvDisconnected(q, s) == q = <<>> /\ s # "Some"

\* .recv() under the guard (lib.rs:132): Ok(job)
RecvJob(w) ==
    /\ wpc[w] = "recv"
    /\ ~RecvDisconnected(queue, sender)
    /\ queue # <<>>
    /\ LET j == queue[RecvPick(queue)] IN
        /\ wmsg' = [wmsg EXCEPT ![w] = j]
        /\ jobs' = [jobs EXCEPT ![j].status = "claimed",
                                ![j].claimedBy = @ \cup {w}]
    /\ queue' = RecvRest(queue)
    /\ wpc' = [wpc EXCEPT ![w] = "unlock"]
    /\ UNCHANGED <<size, newPc, id, sender, rxRefs, workers, lockHolder,
                   poisoned, dropPc, dropIdx>>

\* .recv() under the guard (lib.rs:132): Err(RecvError)
RecvErr(w) ==
    /\ wpc[w] = "recv"
    /\ RecvDisconnected(queue, sender)
    /\ wmsg' = [wmsg EXCEPT ![w] = Disconnected]
    /\ wpc' = [wpc EXCEPT ![w] = "unlock"]
    /\ UNCHANGED <<size, newPc, id, sender, rxRefs, queue, workers,
                   lockHolder, poisoned, jobs, dropPc, dropIdx>>

HolderAfterUnlockMutant(w) == w

\* the temporary MutexGuard is dropped at the end of the let statement
HolderAfterUnlock(w) == NoWorker

\* lib.rs:132, end of statement
Unlock(w) ==
    /\ wpc[w] = "unlock"
    /\ lockHolder' = HolderAfterUnlock(w)
    /\ wpc' = [wpc EXCEPT ![w] = "match"]
    /\ UNCHANGED <<size, newPc, id, sender, rxRefs, queue, workers, wmsg,
                   poisoned, jobs, dropPc, dropIdx>>

\* lib.rs:136-140: Ok(job) => job() is called
StartJob(w) ==
    /\ wpc[w] = "match"
    /\ wmsg[w] # Disconnected
    /\ jobs' = [jobs EXCEPT ![wmsg[w]].status = "running",
                            ![wmsg[w]].starts = @ + 1]
    /\ wpc' = [wpc EXCEPT ![w] = "exec"]
    /\ UNCHANGED <<size, newPc, id, sender, rxRefs, queue, workers, wmsg,
                   lockHolder, poisoned, dropPc, dropIdx>>

\* lib.rs:140-141: job() returns, the loop starts over
FinishJob(w) ==
    /\ wpc[w] = "exec"
    /\ jobs' = [jobs EXCEPT ![wmsg[w]].status = "returned"]
    /\ wmsg' = [wmsg EXCEPT ![w] = NoMessage]
    /\ wpc' = [wpc EXCEPT ![w] = "lock"]
    /\ UNCHANGED <<size, newPc, id, sender, rxRefs, queue, workers,
                   lockHolder, poisoned, dropPc, dropIdx>>

PcAfterPanicCaught == "lock"

\* nothing in the loop catches the unwinding: the thread ends
PcAfterPanic == "panicked"

\* lib.rs:140: job() panics.  The thread unwinds: a guard it holds poisons
\* the mutex, its clone of the Arc is dropped, and the thread ends.
FaultJob(w) ==
    /\ wpc[w] = "exec"
    /\ wpc' = [wpc EXCEPT ![w] = PcAfterPanic]
    /\ rxRefs' = rxRefs - 1
    /\ queue' = QueueAfterRefDrop(rxRefs', queue)
    /\ jobs' = JobsAfterRefDrop(rxRefs', queue,
                    [jobs EXCEPT ![wmsg[w]].status = "faulted"])
    /\ IF lockHolder = w
       THEN lockHolder' = NoWorker /\ poisoned' = TRUE
       ELSE UNCHANGED <<lockHolder, poisoned>>
    /\ UNCHANGED <<size, newPc, id, sender, workers, wmsg, dropPc, dropIdx>>

\* lib.rs:144-147: Err(_) => break; the closure returns and drops its Arc
Disconnect(w) ==
    /\ wpc[w] = "match"
    /\ wmsg[w] = Disconnected
    /\ wpc' = [wpc EXCEPT ![w] = "terminated"]
    /\ rxRefs' = rxRefs - 1
    /\ queue' = QueueAfterRefDrop(rxRefs', queue)
    /\ jobs' = JobsAfterRefDrop(rxRefs', queue, jobs)
    /\ UNCHANGED <<size, newPc, id, sender, workers, wmsg, lockHolder,
                   poisoned, dropPc, dropIdx>>

----------------------------------------------------------------------------
\* Drop for ThreadPool (lib.rs:105-115)

QueueAfterCloseMutant(q) == <<>>

\* dropping the Sender leaves the buffered messages in the channel
QueueAfterClose(q) == q

\* lib.rs:105-106: drop(self.sender.take()).  Running the body of drop again
\* after it has returned meets None here: take() leaves None in place.
DropSender ==
    /\ newPc = "done"
    /\ dropPc \in {"none", "done"}
    /\ sender' = "None"
    /\ queue' = QueueAfterClose(queue)
    /\ dropIdx' = 1
    /\ dropPc' = "loop"
    /\ UNCHANGED <<size, newPc, id, rxRefs, workers, wpc, wmsg, lockHolder,
                   poisoned, jobs>>

HandleAfterTakeKept(h) == h

\* Option::take leaves None in worker.thread
HandleAfterTake(h) == "None"

LoopWorkerReversed(i, n) == n + 1 - i

\* `for worker in &mut self.workers` visits the Vec front to back: the
\* position visited by iteration i of n
LoopWorker(i, n) == i

\* lib.rs:108-111: next worker of the loop; worker.thread.take()
DropTake ==
    /\ dropPc = "loop"
    /\ dropIdx <= Len(workers)
    /\ LET p == LoopWorker(dropIdx, Len(workers)) IN
        IF workers[p].thread = "Some"
        THEN /\ workers' = [workers EXCEPT ![p].thread = HandleAfterTake(@)]
             /\ dropPc' = "join"
             /\ UNCHANGED dropIdx
        ELSE /\ dropIdx' = dropIdx + 1
             /\ UNCHANGED <<workers, dropPc>>
    /\ UNCHANGED <<size, newPc, id, sender, rxRefs, queue, wpc, wmsg,
                   lockHolder, poisoned, jobs>>

JoinReturnsMutant(pc) == TRUE

JoinReturnsOnlyClean(pc) == pc = "terminated"

\* JoinHandle::join blocks until the thread has ended
JoinReturns(pc) == pc \in {"terminated", "panicked"}

JoinOutcomeErrIgnored(pc) == "loop"

\* join() returns Err for a thread that panicked and unwrap() panics on it
JoinOutcome(pc) == IF pc = "panicked" THEN "WorkerJoinFailure" ELSE "loop"

\* lib.rs:112: thread.join().unwrap()
DropJoin ==
    /\ dropPc = "join"
    /\ LET w == workers[LoopWorker(dropIdx, Len(workers))].id IN
        /\ JoinReturns(wpc[w])
        /\ dropPc' = JoinOutcome(wpc[w])
        /\ dropIdx' = IF dropPc' = "loop" THEN dropIdx + 1 ELSE dropIdx
    /\ UNCHANGED <<size, newPc, id, sender, rxRefs, queue, workers, wpc,
                   wmsg, lockHolder, poisoned, jobs>>

\* lib.rs:114-115: the loop is exhausted and drop returns
DropReturn ==
    /\ dropPc = "loop"
    /\ dropIdx > Len(workers)
    /\ dropPc' = "done"
    /\ UNCHANGED <<size, newPc, id, sender, rxRefs, queue, workers, wpc,
                   wmsg, lockHolder, poisoned, jobs, dropIdx>>

----------------------------------------------------------------------------

Init ==
    /\ size \in 0..MaxSize
    /\ newPc = "assert"
    /\ id = 0
    /\ sender = "NoChannel"
    /\ rxRefs = 0
    /\ queue = <<>>
    /\ workers = <<>>
    /\ wpc = <<>>
    /\ wmsg = <<>>
    /\ lockHolder = NoWorker
    /\ poisoned = FALSE
    /\ jobs = <<>>
    /\ dropPc = "none"
    /\ dropIdx = 0

Next ==
    \/ NewAssert
    \/ NewChannel
    \/ NewSpawn
    \/ NewReturn
    \/ \E c \in Callers : Execute(c)
    \/ \E w \in Spawned : Lock(w)
    \/ \E w \in Spawned : RecvJob(w)
    \/ \E w \in Spawned : RecvErr(w)
    \/ \E w \in Spawned : Unlock(w)
    \/ \E w \in Spawned : StartJob(w)
    \/ \E w \in Spawned : FinishJob(w)
    \/ \E w \in Spawned : FaultJob(w)
    \/ \E w \in Spawned : Disconnect(w)
    \/ DropSender
    \/ DropTake
    \/ DropJoin
    \/ DropReturn

Spec == Init /\ [][Next]_vars

\* Any step of worker thread w.
WorkerStep(w) ==
    /\ w \in Spawned
    /\ \/ Lock(w)
       \/ RecvJob(w)
       \/ RecvErr(w)
       \/ Unlock(w)
       \/ StartJob(w)
       \/ FinishJob(w)
       \/ FaultJob(w)
       \/ Disconnect(w)

\* Any step of drop after the sender has been taken.
DropStep == DropTake \/ DropJoin \/ DropReturn

\* Next with a single submitting caller: which caller submitted a job plays
\* no part in any step of the pool.
FairNext ==
    \/ NewAssert
    \/ NewChannel
    \/ NewSpawn
    \/ NewReturn
    \/ Execute("c1")
    \/ \E w \in Spawned : Lock(w)
    \/ \E w \in Spawned : RecvJob(w)
    \/ \E w \in Spawned : RecvErr(w)
    \/ \E w \in Spawned : Unlock(w)
    \/ \E w \in Spawned : StartJob(w)
    \/ \E w \in Spawned : FinishJob(w)
    \/ \E w \in Spawned : FaultJob(w)
    \/ \E w \in Spawned : Disconnect(w)
    \/ DropSender
    \/ DropTake
    \/ DropJoin
    \/ DropReturn

\* The threads are scheduled fairly: a worker thread that can take a step
\* takes one (in particular a running job ends, by returning or panicking),
\* and so does the thread inside drop.
FairSpec ==
    /\ Init
    /\ [][FairNext]_vars
    /\ WF_vars(DropStep)
    /\ \A w \in 0..(MaxSize - 1) : WF_vars(WorkerStep(w))

----------------------------------------------------------------------------
\* Derived notions used by the properties.

\* the jobs that execute accepted (sent into the channel)
Submitted == {j \in DOMAIN jobs : jobs[j].outcome = "Ok"}

RECURSIVE SumStarts(_)
SumStarts(n) == IF n = 0 THEN 0 ELSE jobs[n].starts + SumStarts(n - 1)

\* the number of job executions started so far
Executions == SumStarts(Len(jobs))

Finished(j) == jobs[j].status \in {"returned", "faulted"}

Claimed(j) == jobs[j].claimedBy # {}

Ended(w) == wpc[w] \in {"terminated", "panicked"}

NoDuplicates(q) == \A a, b \in DOMAIN q : a # b => q[a] # q[b]

----------------------------------------------------------------------------
\* C1: every job is claimed by at most one worker and started at most once;
\* no two workers hold the same job, and a job a worker holds is no longer
\* in the queue.
C1_AtMostOnce ==
    /\ \A j \in DOMAIN jobs :
        /\ Cardinality(jobs[j].claimedBy) <= 1
        /\ jobs[j].starts <= 1
    /\ \A w1, w2 \in Spawned :
        (w1 # w2 /\ wmsg[w1] \in DOMAIN jobs) => wmsg[w1] # wmsg[w2]
    /\ NoDuplicates(queue)
    /\ \A w \in Spawned : wmsg[w] \notin SeqToSet(queue)

\* two workers run two different jobs at the same time
C1_Witness ==
    \E w1, w2 \in Spawned :
        /\ w1 # w2
        /\ wpc[w1] = "exec" /\ wpc[w2] = "exec"
        /\ jobs[wmsg[w1]].claimedBy = {w1}
        /\ jobs[wmsg[w2]].claimedBy = {w2}
        /\ jobs[wmsg[w1]].starts = 1 /\ jobs[wmsg[w2]].starts = 1

\* C2: once drop has returned, the number of executions equals the number
\* of jobs submitted, and every submitted job ran exactly once and returned.
C2_AllRunOnceAfterDrop ==
    dropPc = "done" =>
        /\ Executions = Cardinality(Submitted)
        /\ \A j \in Submitted : jobs[j].starts = 1 /\ jobs[j].status = "returned"

\* drop has returned for a pool of two workers that was given three jobs by
\* two different callers
C2_Witness ==
    /\ dropPc = "done"
    /\ size = 2
    /\ Cardinality(Submitted) = 3
    /\ \E a, b \in Submitted : jobs[a].producer # jobs[b].producer

\* C3: drop returns only when nothing is queued, no submitted job is still
\* claimed or running, and every worker thread has ended and been joined.
C3_DropReturnsAfterDrain ==
    dropPc = "done" =>
        /\ queue = <<>>
        /\ \A j \in Submitted : Finished(j)
        /\ \A w \in Spawned : Ended(w)
        /\ \A i \in DOMAIN workers : workers[i].thread = "None"

\* drop has returned for a single worker that had two jobs to run
C3_Witness ==
    /\ dropPc = "done"
    /\ size = 1
    /\ Cardinality(Submitted) = 2
    /\ \A j \in Submitted : jobs[j].starts = 1

\* C4: dropping the sender leaves the queue and the jobs as they are, and a
\* worker has seen recv fail only in states where the sender is gone, the
\* queue is empty and no submitted job is still waiting to be claimed.
C4_CloseKeepsQueue ==
    [][ /\ (sender = "Some" /\ sender' # "Some") =>
            (queue' = queue /\ jobs' = jobs)
        /\ \A w \in DOMAIN wmsg' :
            (wmsg'[w] = Disconnected \/ wpc'[w] = "terminated") =>
                /\ sender' = "None"
                /\ queue' = <<>>
                /\ \A j \in DOMAIN jobs' :
                    jobs'[j].outcome = "Ok" => jobs'[j].claimedBy # {}
      ]_vars

\* the sender is gone, jobs are still queued, and a worker is inside recv
C4_Witness ==
    /\ sender = "None"
    /\ Len(queue) >= 2
    /\ \E w \in Spawned : wpc[w] = "recv"

\* C5: once the sender has been taken, a call of execute is possible (it does
\* not block), ends with PoolClosed and leaves the queue alone; a job that
\* was refused is never queued, claimed or started.
C5_PoolClosed ==
    [][ /\ (sender = "None" /\ Len(jobs') = Len(jobs) + 1) =>
            /\ jobs'[Len(jobs')].outcome = "PoolClosed"
            /\ queue' = queue
        /\ (sender = "None" /\ dropPc \in {"loop", "join"}
                /\ Len(jobs) < MaxJobs) =>
            ENABLED (\E c \in Callers : Execute(c))
        /\ \A j \in DOMAIN jobs' :
            jobs'[j].outcome = "PoolClosed" =>
                /\ jobs'[j].status = "rejected"
                /\ jobs'[j].starts = 0
                /\ jobs'[j].claimedBy = {}
                /\ j \notin SeqToSet(queue')
                /\ \A w \in DOMAIN wmsg' : wmsg'[w] # j
      ]_vars

\* a call was refused while workers were still running accepted jobs
C5_Witness ==
    /\ \E j \in DOMAIN jobs : jobs[j].outcome = "PoolClosed"
    /\ \E j \in DOMAIN jobs : jobs[j].status = "running"
    /\ dropPc = "join"

\* C6: while the sender is present, every call of execute is accepted and
\* appends its job at the back of the queue, whatever the workers are doing.
C6_ExecuteSucceeds ==
    [][ (sender = "Some" /\ Len(jobs') = Len(jobs) + 1) =>
            /\ jobs'[Len(jobs')].outcome = "Ok"
            /\ queue' = Append(queue, Len(jobs'))
      ]_vars

\* C7: new(0) ends with InvalidConfiguration, and until the size check has
\* passed there is no worker, no thread and no channel.
C7_InvalidConfiguration ==
    /\ (size = 0 /\ newPc # "assert") => newPc = "InvalidConfiguration"
    /\ newPc \in {"assert", "InvalidConfiguration"} =>
        /\ workers = <<>>
        /\ Spawned = {}
        /\ sender = "NoChannel"
        /\ rxRefs = 0

\* new(0) has failed
C7_Witness == size = 0 /\ newPc = "InvalidConfiguration" /\ Spawned = {}

\* C8: when new returns, the pool owns exactly size workers with the ids
\* 0..size-1 in order, each with a running thread; afterwards the number of
\* workers and their ids never change.
C8_FixedWorkers ==
    [][ /\ (newPc = "spawn" /\ newPc' = "done") =>
            /\ size > 0
            /\ Len(workers') = size
            /\ \A i \in 1..size :
                workers'[i].id = i - 1 /\ workers'[i].thread = "Some"
            /\ DOMAIN wpc' = 0..(size - 1)
            /\ \A w \in DOMAIN wpc' : wpc'[w] \notin {"terminated", "panicked"}
        /\ newPc = "done" =>
            /\ Len(workers') = Len(workers)
            /\ \A i \in DOMAIN workers : workers'[i].id = workers[i].id
      ]_vars

\* new(2) has returned two workers, 0 and 1, and the pool has since run a
\* job and begun to shut down
C8_Witness ==
    /\ newPc = "done"
    /\ size = 2
    /\ Len(workers) = 2
    /\ workers[1].id = 0 /\ workers[2].id = 1
    /\ \E j \in Submitted : Finished(j)
    /\ dropPc = "join"

\* C9: with one worker, a job starts only after every job the same caller
\* submitted before it has finished.
C9_SingleWorkerInOrder ==
    size = 1 =>
        \A a, b \in Submitted :
            (a < b /\ jobs[a].producer = jobs[b].producer
                /\ jobs[b].starts > 0) => Finished(a)

\* the single worker runs a caller's second job after the first returned
C9_Witness ==
    /\ size = 1
    /\ \E a, b \in Submitted :
        /\ a < b
        /\ jobs[a].producer = jobs[b].producer
        /\ jobs[a].status = "returned"
        /\ jobs[b].status = "running"

\* C10: of two jobs submitted by the same caller, the later one is claimed
\* only after the earlier one has been claimed.
C10_FifoClaim ==
    \A a, b \in Submitted :
        (a < b /\ jobs[a].producer = jobs[b].producer /\ Claimed(b))
            => Claimed(a)

\* with two workers, a caller's later job has returned while its earlier
\* job, claimed first, is still running
C10_Witness ==
    /\ size = 2
    /\ \E a, b \in Submitted :
        /\ a < b
        /\ jobs[a].producer = jobs[b].producer
        /\ jobs[a].status = "running"
        /\ jobs[b].status = "returned"

\* C11: under fair scheduling, once drop has taken the sender, drop returns
\* unless some worker's job panics.
C11_ShutdownCompletes ==
    (dropPc = "loop") ~>
        (dropPc = "done" \/ \E w \in Spawned : wpc[w] = "panicked")

\* shutdown has begun while one worker is blocked inside recv with the guard
\* and the other waits for the lock
C11_Witness ==
    /\ dropPc = "join"
    /\ queue = <<>>
    /\ \E w1, w2 \in Spawned :
        /\ wpc[w1] = "recv" /\ lockHolder = w1
        /\ wpc[w2] = "lock"

\* C12: when drop joins a worker whose thread panicked, the join can return
\* (it does not block) and its only outcome is WorkerJoinFailure; drop ends
\* in WorkerJoinFailure only at a worker that panicked.
C12_JoinFailureSurfaces ==
    [][ /\ (dropPc = "join" /\ wpc[workers[dropIdx].id] = "panicked") =>
            /\ ENABLED DropJoin
            /\ dropPc' \in {"join", "WorkerJoinFailure"}
        /\ dropPc' = "WorkerJoinFailure" =>
            wpc'[workers'[dropIdx'].id] = "panicked"
      ]_vars

\* drop has failed at the second worker, after joining the first
C12_Witness ==
    /\ dropPc = "WorkerJoinFailure"
    /\ dropIdx = 2
    /\ wpc[workers[1].id] = "terminated"
    /\ wpc[workers[2].id] = "panicked"

\* C13: the sender goes from present to absent once and is never present
\* again; a thread handle, once taken, stays taken, and a join is always of a
\* handle taken in that very step's predecessor; running the body of drop
\* again after it has returned changes nothing but drop's own position and
\* never fails.
SecondRun ==
    \/ dropPc = "done"
    \/ /\ dropPc = "loop"
       /\ dropIdx <= Len(workers)
       /\ workers[dropIdx].thread = "None"

C13_ShutdownIdempotent ==
    [][ /\ sender = "None" => sender' = "None"
        /\ sender' # sender =>
            \/ sender = "NoChannel" /\ sender' = "Some"
            \/ sender = "Some" /\ sender' = "None"
        /\ \A i \in DOMAIN workers :
            workers[i].thread = "None" =>
                (i \in DOMAIN workers' /\ workers'[i].thread = "None")
        /\ (dropPc # "join" /\ dropPc' = "join") =>
            /\ workers[dropIdx].thread = "Some"
            /\ workers'[dropIdx].thread = "None"
        /\ (SecondRun /\ <<dropPc, dropIdx>>' # <<dropPc, dropIdx>>) =>
            /\ dropPc' \in {"loop", "done"}
            /\ UNCHANGED <<size, newPc, id, sender, rxRefs, queue, workers,
                           wpc, wmsg, lockHolder, poisoned, jobs>>
      ]_vars

\* the body of drop runs a second time and has passed the first worker,
\* whose handle was already taken
C13_Witness ==
    /\ size = 2
    /\ dropPc = "loop"
    /\ dropIdx = 2
    /\ workers[1].thread = "None" /\ workers[2].thread = "None"
    /\ \E j \in Submitted : jobs[j].status = "returned"

\* C14: a thread handle is taken only after the sender is gone, and the
\* handle at position i (worker id i-1) only after every worker before it
\* has been taken, joined and found terminated; while a join is pending no
\* later handle has been taken.
C14_JoinInOrder ==
    /\ \A i \in DOMAIN workers :
        workers[i].thread = "None" =>
            /\ sender = "None"
            /\ workers[i].id = i - 1
            /\ \A k \in 1..(i - 1) :
                /\ workers[k].thread = "None"
                /\ wpc[workers[k].id] = "terminated"
    /\ dropPc = "join" =>
        \A k \in (dropIdx + 1)..Len(workers) : workers[k].thread = "Some"

\* worker 0 has been joined; worker 1's handle is taken and drop waits for
\* it while it still runs a job
C14_Witness ==
    /\ dropPc = "join"
    /\ dropIdx = 2
    /\ workers[1].thread = "None" /\ wpc[0] = "terminated"
    /\ workers[2].thread = "None" /\ wpc[1] = "exec"

\* C15: at most one worker is inside the claim operation (between lock()
\* and the release of the guard), the mutex is held by exactly that worker,
\* and a worker that matches on its message or runs a job does not hold it.
InClaim == {w \in Spawned : wpc[w] \in {"recv", "unlock"}}

C15_LockExclusive ==
    /\ Cardinality(InClaim) <= 1
    /\ \A w \in Spawned : (w \in InClaim) <=> (lockHolder = w)
    /\ \A w \in Spawned : wpc[w] \in {"match", "exec"} => lockHolder # w
    /\ lockHolder # NoWorker => lockHolder \in Spawned

\* one worker runs a job while another holds the lock inside recv
C15_Witness ==
    \E w1, w2 \in Spawned :
        /\ wpc[w1] = "exec"
        /\ wpc[w2] = "recv"
        /\ lockHolder = w2

\* The worker state machine of the design: a thread is Running while it
\* tries to claim, Executing while it holds a claimed job, Terminated once
\* it has ended.
WState(pc, msg) ==
    IF pc \in {"terminated", "panicked"} THEN "Terminated"
    ELSE IF msg \in {NoMessage, Disconnected} THEN "Running"
    ELSE "Executing"

ClaimStep(w) ==
    /\ WState(wpc[w], wmsg[w]) = "Running"
    /\ WState(wpc'[w], wmsg'[w]) = "Executing"
    /\ queue # <<>>
    /\ wmsg'[w] = Head(queue)
    /\ queue' = Tail(queue)

CompleteStep(w) ==
    /\ WState(wpc[w], wmsg[w]) = "Executing"
    /\ WState(wpc'[w], wmsg'[w]) = "Running"
    /\ jobs[wmsg[w]].status = "running"
    /\ jobs'[wmsg[w]].status = "returned"

CloseStep(w) ==
    /\ WState(wpc[w], wmsg[w]) = "Running"
    /\ WState(wpc'[w], wmsg'[w]) = "Terminated"
    /\ wpc'[w] = "terminated"
    /\ sender = "None"
    /\ queue = <<>>

FaultStep(w) ==
    /\ WState(wpc[w], wmsg[w]) = "Executing"
    /\ WState(wpc'[w], wmsg'[w]) = "Terminated"
    /\ wpc'[w] = "panicked"
    /\ jobs[wmsg[w]].status = "running"
    /\ jobs'[wmsg[w]].status = "faulted"

\* what holds of every worker in every step, besides the transitions
WorkerStable(w) ==
    /\ WState(wpc[w], wmsg[w]) = "Terminated" =>
        (wpc'[w] = wpc[w] /\ wmsg'[w] = wmsg[w])
    /\ WState(wpc[w], wmsg[w]) = "Executing" =>
        wmsg'[w] \in {wmsg[w], NoMessage}

\* C16 as claimed: every change of a worker's state is a claim, a completion
\* or the observation of the closed empty queue.
C16_ThreeTransitions ==
    [][ \A w \in Spawned :
          /\ WorkerStable(w)
          /\ WState(wpc'[w], wmsg'[w]) # WState(wpc[w], wmsg[w]) =>
                ClaimStep(w) \/ CompleteStep(w) \/ CloseStep(w)
      ]_vars

\* C16 as amended: there is a fourth transition, Executing to Terminated
\* when the job panics; every change of a worker's state is one of the four,
\* a Terminated worker stays as it is, and a worker that holds a job takes
\* no other job.
C16_FourTransitions ==
    [][ \A w \in Spawned :
          /\ WorkerStable(w)
          /\ WState(wpc'[w], wmsg'[w]) # WState(wpc[w], wmsg[w]) =>
                ClaimStep(w) \/ CompleteStep(w) \/ CloseStep(w) \/ FaultStep(w)
      ]_vars

\* one worker has gone through claim and completion and then terminated on
\* the closed queue, the other went from Executing to Terminated by a panic
C16_Witness ==
    \E w1, w2 \in Spawned :
        /\ wpc[w1] = "terminated"
        /\ \E j \in Submitted :
            jobs[j].claimedBy = {w1} /\ jobs[j].status = "returned"
        /\ wpc[w2] = "panicked"
        /\ jobs[wmsg[w2]].status = "faulted"

\* the worker threads in pcs that have not ended
Live(pcs) == {w \in DOMAIN pcs : pcs[w] \notin {"terminated", "panicked"}}

\* C17: when the job a worker runs panics, that worker's thread ends for
\* good: it takes no further step and claims no further job, no worker is
\* created in its place, and the number of live workers drops by exactly one;
\* once new has returned the number of live workers never grows.
C17_FaultTerminatesWorker ==
    [][ /\ \A w \in Spawned :
            /\ (wpc[w] = "exec" /\ jobs[wmsg[w]].status = "running"
                    /\ jobs'[wmsg[w]].status = "faulted") =>
                /\ wpc'[w] = "panicked"
                /\ Cardinality(Live(wpc')) = Cardinality(Live(wpc)) - 1
                /\ DOMAIN wpc' = DOMAIN wpc
                /\ Len(workers') = Len(workers)
            /\ wpc[w] = "panicked" =>
                /\ wpc'[w] = "panicked"
                /\ wmsg'[w] = wmsg[w]
                /\ \A j \in DOMAIN jobs :
                    w \in jobs'[j].claimedBy => w \in jobs[j].claimedBy
        /\ newPc = "done" =>
            /\ DOMAIN wpc' = DOMAIN wpc
            /\ Live(wpc') \subseteq Live(wpc)
      ]_vars

\* worker 0 ended by a panic; worker 1 went on, returned from a job that was
\* submitted later, and is the only live worker
C17_Witness ==
    /\ size = 2
    /\ Spawned = {0, 1}
    /\ wpc[0] = "panicked"
    /\ Live(wpc) = {1}
    /\ \E j \in Submitted :
        /\ j > wmsg[0]
        /\ jobs[j].claimedBy = {1}
        /\ jobs[j].status = "returned"

\* C18: every worker that drop has passed was joined and had terminated
\* normally; when drop ends in WorkerJoinFailure it stands at the first
\* panicked worker, whose handle it took, every earlier handle is taken and
\* every later handle is still in place.
C18_StopsAtFirstFailure ==
    /\ dropPc # "none" =>
        \A k \in DOMAIN workers :
            k < dropIdx =>
                /\ workers[k].thread = "None"
                /\ wpc[workers[k].id] = "terminated"
    /\ dropPc = "WorkerJoinFailure" =>
        /\ dropIdx \in DOMAIN workers
        /\ wpc[workers[dropIdx].id] = "panicked"
        /\ workers[dropIdx].thread = "None"
        /\ \A k \in DOMAIN workers : k > dropIdx => workers[k].thread = "Some"

\* drop failed at worker 0; worker 1 also ended by a panic and its handle
\* was never taken
C18_Witness ==
    /\ dropPc = "WorkerJoinFailure"
    /\ size = 2
    /\ dropIdx = 1
    /\ workers[2].thread = "Some"
    /\ wpc[workers[2].id] = "panicked"

\* C19: the mutex is never poisoned and never held by a thread that has
\* ended; and under fair scheduling every job that execute accepted is
\* eventually started, unless every worker of the pool has panicked (a
\* panicked worker stays panicked, so the exception is exactly the behaviours
\* in which no worker is left that never faults).
AllPanicked == \A w \in Spawned : wpc[w] = "panicked"

StartedOrAllDead(j) ==
    (j \in Submitted) ~>
        ((j \in DOMAIN jobs /\ jobs[j].starts > 0) \/ AllPanicked)

C19_FaultDoesNotDisableOthers ==
    /\ [](/\ ~poisoned
          /\ \A w \in Spawned : Ended(w) => lockHolder # w)
    /\ \A j \in 1..MaxJobs : StartedOrAllDead(j)

\* worker 0 has ended by a panic, and worker 1 holds the lock inside recv
\* with a job waiting in the queue
C19_Witness ==
    /\ Spawned = {0, 1}
    /\ wpc[0] = "panicked"
    /\ ~poisoned
    /\ wpc[1] = "recv" /\ lockHolder = 1
    /\ queue # <<>>

\* where an accepted job is: in the queue, held by a live worker, finished
InQueue(j) == j \in SeqToSet(queue)

HeldBy(j) == {w \in Spawned : ~Ended(w) /\ wmsg[w] = j}

Places(j) ==
    (IF InQueue(j) THEN 1 ELSE 0) + Cardinality(HeldBy(j))
        + (IF Finished(j) THEN 1 ELSE 0)

\* C20: every accepted job is in exactly one place (queued, held by exactly
\* one live worker, or finished), the accepted jobs number queued + executing
\* + finished, and no more jobs are executing than workers are live.
C20_Conservation ==
    /\ \A j \in Submitted : Places(j) = 1
    /\ Cardinality(Submitted) =
            Len(queue)
            + Cardinality({j \in Submitted : HeldBy(j) # {}})
            + Cardinality({j \in Submitted : Finished(j)})
    /\ Cardinality({j \in Submitted : HeldBy(j) # {}})
            <= Cardinality(Live(wpc))

====
